---- MODULE Spec2Model ----
(***************************************************************************)
(* Model of mwat56/reprox: the host based reverse proxy handler            *)
(* (TProxyHandler.ServeHTTP, createReverseProxy, initBackendList) and the  *)
(* server life cycle of app/reverseProxy.go (createServ, setupSignals,     *)
(* main, exit); and the publish/subscribe structure TSubscriptions of      *)
(* workinprogress/pubSub2.go with the demo program of its main.            *)
(*                                                                         *)
(* Strings that the code only compares (the Host header, the keys of the   *)
(* map) are TLA+ strings.  Strings that the code parses (destHost) are     *)
(* sequences of one character strings, so that url.ParseRequestURI can be  *)
(* computed on them.                                                       *)
(***************************************************************************)
EXTENDS Integers, Sequences, FiniteSets, TLC

\* ------------------------------------------------------------------ bounds
\* number of request tasks (goroutines of net/http) that run ServeHTTP
NumTasks == 2
\* number of requests accepted in one run
MaxRequests == 3

\* number of connections accepted by the listeners in one run
MaxConns == 1
\* number of termination signals sent to the process in one run
MaxSignals == 2

\* number of goroutines that call the methods of one TSubscriptions
NumClients == 2
\* number of Subscribe, Publish and Unsubscribe calls in one run
MaxCalls == 4

Tasks == 1..NumTasks
Conns == 1..MaxConns
Clients == 1..NumClients

\* ------------------------------------------------- net/url.ParseRequestURI
Letters == {"a","b","c","d","e","f","g","h","i","j","k","l","m","n","o","p",
            "q","r","s","t","u","v","w","x","y","z"}
Digits == {"0","1","2","3","4","5","6","7","8","9"}
\* the one ASCII control character of the inputs
CTL == "\n"

HasPrefix(s, p) == Len(s) >= Len(p) /\ SubSeq(s, 1, Len(p)) = p

\* url.getScheme: [err, scheme, rest]
getScheme(rawURL) ==
    LET stop(i) == \/ rawURL[i] = ":"
                   \/ /\ rawURL[i] \notin Letters
                      /\ \/ i = 1
                         \/ rawURL[i] \notin (Digits \cup {"+", "-", "."})
        stops == {i \in 1..Len(rawURL) : stop(i)}
        first == CHOOSE i \in stops : \A j \in stops : i <= j
    IN  IF stops = {} THEN [err |-> FALSE, scheme |-> <<>>, rest |-> rawURL]
        ELSE IF rawURL[first] # ":"
             THEN [err |-> FALSE, scheme |-> <<>>, rest |-> rawURL]
        ELSE IF first = 1
             THEN [err |-> TRUE, scheme |-> <<>>, rest |-> <<>>]
        ELSE [err |-> FALSE, scheme |-> SubSeq(rawURL, 1, first - 1),
              rest |-> SubSeq(rawURL, first + 1, Len(rawURL))]

\* url.validOptionalPort applied to the part of the authority that follows
\* the last colon (the inputs have no userinfo and no IPv6 literal)
validAuthority(authority) ==
    LET colons == {i \in 1..Len(authority) : authority[i] = ":"}
        last == CHOOSE i \in colons : \A j \in colons : j <= i
    IN  colons = {} \/ \A i \in (last + 1)..Len(authority) : authority[i] \in Digits

NoURL == [Scheme |-> <<>>, Opaque |-> <<>>, Host |-> <<>>, Path |-> <<>>]

\* url.ParseRequestURI = url.parse(rawURL, viaRequest = true): [err, url].
\* The inputs contain no '?', '#', '%', '@' or '[', so the query, escape and
\* userinfo branches of the library are not taken.
ParseRequestURI(rawURL) ==
    LET fail == [err |-> TRUE, url |-> NoURL]
        sch == getScheme(rawURL)
        rest == sch.rest
        afterSlashes == SubSeq(rest, 3, Len(rest))
        slashes == {i \in 1..Len(afterSlashes) : afterSlashes[i] = "/"}
        cut == IF slashes = {} THEN Len(afterSlashes) + 1
               ELSE CHOOSE i \in slashes : \A j \in slashes : i <= j
        authority == SubSeq(afterSlashes, 1, cut - 1)
        path == SubSeq(afterSlashes, cut, Len(afterSlashes))
    IN  IF \E i \in 1..Len(rawURL) : rawURL[i] = CTL THEN fail
        ELSE IF rawURL = <<>> THEN fail
        ELSE IF rawURL = <<"*">>
             THEN [err |-> FALSE, url |-> [NoURL EXCEPT !.Path = <<"*">>]]
        ELSE IF sch.err THEN fail
        ELSE IF ~HasPrefix(rest, <<"/">>)
             THEN IF sch.scheme # <<>>
                  THEN [err |-> FALSE,
                        url |-> [NoURL EXCEPT !.Scheme = sch.scheme, !.Opaque = rest]]
                  ELSE fail
        ELSE IF sch.scheme # <<>> /\ HasPrefix(rest, <<"/", "/">>)
             THEN IF validAuthority(authority)
                  THEN [err |-> FALSE,
                        url |-> [Scheme |-> sch.scheme, Opaque |-> <<>>,
                                 Host |-> authority, Path |-> path]]
                  ELSE fail
        ELSE [err |-> FALSE,
              url |-> [NoURL EXCEPT !.Scheme = sch.scheme, !.Path = rest]]

\* -------------------------------------------------------- the routing table
\* "http://192.168.192.236:8181"
URL8181 == <<"h","t","t","p",":","/","/","1","9","2",".","1","6","8",".",
             "1","9","2",".","2","3","6",":","8","1","8","1">>
\* "http://192.168.192.236:8383"
URL8383 == <<"h","t","t","p",":","/","/","1","9","2",".","1","6","8",".",
             "1","9","2",".","2","3","6",":","8","3","8","3">>

\* tDestination{destHost, destProxy}; destProxy 0 is the nil pointer, n > 0 is
\* the n-th *httputil.ReverseProxy that was constructed
tDestination(destHost, destProxy) == [destHost |-> destHost, destProxy |-> destProxy]

ZeroDestination == tDestination(<<>>, 0)

initBackendList ==
    [k \in {"bla.mwat.de", "bla.mwat.de:80", "bla.mwat.de:443",
            "read.mwat.de", "read.mwat.de:80", "read.mwat.de:443"} |->
        IF k \in {"bla.mwat.de", "bla.mwat.de:80", "bla.mwat.de:443"}
        THEN tDestination(URL8181, 0)
        ELSE tDestination(URL8383, 0)]

\* the table of the example scenario, with one key per kind of destHost:
\* "http://10.0.0.1:9000", "http://10.0.0.2:9100", "10.0.0.3:9000", "/x"
URL9000 == <<"h","t","t","p",":","/","/","1","0",".","0",".","0",".","1",":","9","0","0","0">>
URL9100 == <<"h","t","t","p",":","/","/","1","0",".","0",".","0",".","2",":","9","1","0","0">>
URLNoScheme == <<"1","0",".","0",".","0",".","3",":","9","0","0","0">>
URLRooted == <<"/","x">>

exampleBackendList ==
    [k \in {"a.example:80", "a.example", "bad.example", "root.example"} |->
        CASE k = "a.example:80" -> tDestination(URL9000, 0)
          [] k = "a.example"    -> tDestination(URL9100, 0)
          [] k = "bad.example"  -> tDestination(URLNoScheme, 0)
          [] OTHER              -> tDestination(URLRooted, 0)]

\* the Host headers of the requests, by table
RequestHosts(aList) ==
    IF "bla.mwat.de" \in DOMAIN aList
    THEN {"bla.mwat.de", "bla.mwat.de:80", "read.mwat.de", "bla.mwat.de:8080"}
    ELSE {"a.example:80", "a.example", "bad.example", "root.example", "c.example:80"}

StatusNotFound == 404
StatusInternalServerError == 500

\* ------------------------------------------------------------------- state
VARIABLES
    backendServers, \* TProxyHandler.backendServers: Host -> tDestination
    handles,        \* the reverse proxies constructed so far, in order
    task,           \* per request task: position in ServeHTTP and its locals
    nRequests,      \* requests accepted so far
    fatal,          \* "" or the message of the runtime's fatal error
    firstStored     \* per Host: the first handle stored in its entry (0: none)

proxyVars == <<backendServers, handles, task, nRequests, fatal, firstStored>>

VARIABLES
    servers,      \* addresses of the http.Server values that main starts
    mainPc,       \* per server: position of the goroutine of main that runs it
    serveErr,     \* per server: what ListenAndServe returned
    notify,       \* per server: signal.Notify(c, ...) is in effect
    sigChan,      \* per server: signals queued in c (capacity 2)
    sigPc,        \* per server: position of the goroutine of setupSignals
    inShutdown,   \* per server: Server.Shutdown was called
    listenerOpen, \* per server: the listening socket is open
    baseContext,  \* per server: the context Server.BaseContext returns
    connBase,     \* per server: the base context Serve obtained at its start
    cancelled,    \* per server: its contexts that are cancelled
    deadline,     \* per server: the 10 seconds of Shutdown's context are over
    closeErr,     \* per server: closing the listener failed
    conn,         \* per connection: its server and the state of its request
    nSignals,     \* termination signals sent so far
    tlsConfig,    \* per server: which TLSConfig it has ("nil": none)
    shutdownCalls, \* per server: number of calls of Server.Shutdown
    exited        \* "" while the process runs, else what ended it

lifeVars == <<servers, mainPc, serveErr, notify, sigChan, sigPc, inShutdown,
              listenerOpen, baseContext, connBase, cancelled, deadline,
              closeErr, conn, nSignals, tlsConfig, shutdownCalls,
              exited>>

VARIABLES
    mode,          \* "demo": the clients run main of pubSub2.go; "free": any calls
    subscriptions, \* ts.subscriptions: topic -> list of channels
    chans,         \* the channels made so far: buffer, closed, who holds it
    mtxW,          \* ts.mtx: the writer that has announced itself (0: none)
    mtxR,          \* ts.mtx: the readers that hold the lock
    client,        \* per goroutine: position in the method it runs, its locals
    nCalls,        \* calls made so far
    demo,          \* main of pubSub2.go: its position and its locals
    panicked       \* "" or the message of the panic that ended the program

psVars == <<mode, subscriptions, chans, mtxW, mtxR, client, nCalls, demo,
            panicked>>

vars == <<proxyVars, lifeVars, psVars>>

IdleTask == [pc |-> "idle", Host |-> "", target |-> ZeroDestination, proxy |-> 0,
             status |-> 0, via |-> 0, made |-> 0, wrote |-> FALSE, after |-> 0]

ProxyInit ==
    /\ backendServers \in {initBackendList, exampleBackendList}
    /\ handles = <<>>
    /\ task = [t \in Tasks |-> IdleTask]
    /\ nRequests = 0
    /\ fatal = ""
    /\ firstStored = [k \in DOMAIN backendServers \cup RequestHosts(backendServers) |-> 0]

\* ------------------------------------------------------ TProxyHandler.ServeHTTP
\* the index expression without its second result: target := ph.backendServers[Host]
MapIndexNoOk(aList, host) ==
    IF host \in DOMAIN aList
    THEN [val |-> aList[host], ok |-> TRUE]
    ELSE [val |-> ZeroDestination, ok |-> TRUE]

\* the Host header without its port
StripPort(host) ==
    CASE host = "bla.mwat.de:8080" -> "bla.mwat.de"
      [] host = "bla.mwat.de:80"   -> "bla.mwat.de"
      [] host = "a.example:80"     -> "a.example"
      [] host = "c.example:80"     -> "c.example"
      [] OTHER                     -> host

\* a lookup that falls back to the host name when the literal Host is no key
MapIndexAnyPort(aList, host) ==
    IF host \in DOMAIN aList
    THEN [val |-> aList[host], ok |-> TRUE]
    ELSE IF StripPort(host) \in DOMAIN aList
    THEN [val |-> aList[StripPort(host)], ok |-> TRUE]
    ELSE [val |-> ZeroDestination, ok |-> FALSE]

\* target, ok := ph.backendServers[aRequest.Host]
MapIndex(aList, host) ==
    IF host \in DOMAIN aList
    THEN [val |-> aList[host], ok |-> TRUE]
    ELSE [val |-> ZeroDestination, ok |-> FALSE]

\* tasks that are inside the map assignment of line 134
Writers == {u \in Tasks : task[u].pc = "writing"}

\* the values a read of the entry of host can yield: the stored one, or, when
\* the read races with an assignment to the same key, the one being stored
Readable(host) ==
    {MapIndex(backendServers, host).val}
        \cup {task[u].target : u \in {w \in Writers : task[w].Host = host}}

\* createReverseProxy with the parse error dropped: targetURL, _ := ...
createReverseProxyIgnoreErr(aDestination) ==
    LET parsed == ParseRequestURI(aDestination.destHost)
    IN  IF aDestination.destProxy # 0
        THEN [proxy |-> aDestination.destProxy, err |-> FALSE, new |-> FALSE,
              url |-> NoURL]
        ELSE [proxy |-> Len(handles) + 1, err |-> FALSE, new |-> TRUE,
              url |-> parsed.url]

createReverseProxy(aDestination) ==
    LET parsed == ParseRequestURI(aDestination.destHost)
    IN  IF aDestination.destProxy # 0
        THEN [proxy |-> aDestination.destProxy, err |-> FALSE, new |-> FALSE,
              url |-> NoURL]
        ELSE IF parsed.err
        THEN [proxy |-> 0, err |-> TRUE, new |-> FALSE, url |-> NoURL]
        ELSE [proxy |-> Len(handles) + 1, err |-> FALSE, new |-> TRUE,
              url |-> parsed.url]

\* lines 113-120: a request with Host header host arrives at task t
ServeLookup(t, host) ==
    /\ fatal = ""
    /\ task[t].pc \in {"idle", "done"}
    /\ nRequests < MaxRequests
    /\ nRequests' = nRequests + 1
    /\ LET idx == MapIndex(backendServers, host)
       IN  IF ~idx.ok
           THEN task' = [task EXCEPT ![t] =
                    [IdleTask EXCEPT !.pc = "done", !.Host = host,
                                     !.status = StatusNotFound]]
           ELSE \E v \in Readable(host) :
                    task' = [task EXCEPT ![t] =
                        [IdleTask EXCEPT !.pc = "create", !.Host = host,
                                         !.target = v,
                                         !.after = firstStored[host]]]
    /\ UNCHANGED <<backendServers, handles, fatal, firstStored>>
    /\ UNCHANGED <<lifeVars, psVars>>

\* lines 123-131: createReverseProxy and the error answer
ServeCreate(t) ==
    /\ fatal = ""
    /\ task[t].pc = "create"
    /\ LET r == createReverseProxy(task[t].target)
       IN  IF r.err
           THEN /\ task' = [task EXCEPT ![t].pc = "done",
                                        ![t].status = StatusInternalServerError]
                /\ UNCHANGED handles
           ELSE /\ task' = [task EXCEPT ![t].pc = "store", ![t].proxy = r.proxy,
                                        ![t].made = IF r.new THEN r.proxy ELSE 0]
                /\ handles' = IF r.new
                              THEN Append(handles, [url |-> r.url,
                                                    dest |-> task[t].target.destHost,
                                                    host |-> task[t].Host])
                              ELSE handles
    /\ UNCHANGED <<backendServers, nRequests, fatal, firstStored>>
    /\ UNCHANGED <<lifeVars, psVars>>

\* lines 133-134, first half: target.destProxy = proxy and the runtime's
\* mapassign is entered
ServeStoreBegin(t) ==
    /\ fatal = ""
    /\ task[t].pc = "store"
    /\ task' = [task EXCEPT ![t].pc = "writing",
                            ![t].target.destProxy = task[t].proxy]
    /\ UNCHANGED <<backendServers, handles, nRequests, fatal, firstStored>>
    /\ UNCHANGED <<lifeVars, psVars>>

\* line 133 as target = tDestination{destProxy: proxy}: the entry that is
\* stored has lost its destHost
ServeStoreEndNoHost(t) ==
    /\ fatal = ""
    /\ task[t].pc = "writing"
    /\ backendServers' = [backendServers EXCEPT ![task[t].Host] =
                              tDestination(<<>>, task[t].target.destProxy)]
    /\ firstStored' = IF firstStored[task[t].Host] = 0
                      THEN [firstStored EXCEPT ![task[t].Host] = task[t].target.destProxy]
                      ELSE firstStored
    /\ task' = [task EXCEPT ![t].pc = "relay", ![t].wrote = TRUE]
    /\ UNCHANGED <<handles, nRequests, fatal>>
    /\ UNCHANGED <<lifeVars, psVars>>

\* line 134, second half: the value is in the map
ServeStoreEnd(t) ==
    /\ fatal = ""
    /\ task[t].pc = "writing"
    /\ backendServers' = [backendServers EXCEPT ![task[t].Host] = task[t].target]
    /\ firstStored' = IF firstStored[task[t].Host] = 0
                      THEN [firstStored EXCEPT ![task[t].Host] = task[t].target.destProxy]
                      ELSE firstStored
    /\ task' = [task EXCEPT ![t].pc = "relay", ![t].wrote = TRUE]
    /\ UNCHANGED <<handles, nRequests, fatal>>
    /\ UNCHANGED <<lifeVars, psVars>>

\* line 137: proxy.ServeHTTP(aWriter, aRequest)
ServeRelay(t) ==
    /\ fatal = ""
    /\ task[t].pc = "relay"
    /\ task' = [task EXCEPT ![t].pc = "done", ![t].via = task[t].proxy]
    /\ UNCHANGED <<backendServers, handles, nRequests, fatal, firstStored>>
    /\ UNCHANGED <<lifeVars, psVars>>

\* The map is accessed without a lock.  A read (line 113) or an assignment
\* (line 134) that meets another task's assignment is a data race, which the
\* Go runtime may answer with a fatal error that ends the process.
ThrowMapRead(t) ==
    /\ fatal = ""
    /\ task[t].pc \in {"idle", "done"}
    /\ nRequests < MaxRequests
    /\ Writers \ {t} # {}
    /\ fatal' = "concurrent map read and map write"
    /\ UNCHANGED <<backendServers, handles, task, nRequests, firstStored>>
    /\ UNCHANGED <<lifeVars, psVars>>

ThrowMapWrite(t) ==
    /\ fatal = ""
    /\ task[t].pc = "store"
    /\ Writers \ {t} # {}
    /\ fatal' = "concurrent map writes"
    /\ UNCHANGED <<backendServers, handles, task, nRequests, firstStored>>
    /\ UNCHANGED <<lifeVars, psVars>>

ProxyNext ==
    \E t \in Tasks :
        \/ \E host \in RequestHosts(backendServers) : ServeLookup(t, host)
        \/ ServeCreate(t)
        \/ ServeStoreBegin(t)
        \/ ServeStoreEnd(t)
        \/ ServeRelay(t)
        \/ ThrowMapRead(t)
        \/ ThrowMapWrite(t)

\* ============================================== app/reverseProxy.go
\* main starts server80; the goroutine of server443 is the block that main
\* keeps as a comment (lines 241-256)
AllServers == {":80", ":443"}

NoConn == [state |-> "none", srv |-> "", atSignal |-> FALSE]

\* crypto/tls: VersionTLS10, VersionTLS12
VersionTLS10 == 769
VersionTLS12 == 771

Suite(kx, enc, mac) == [kx |-> kx, enc |-> enc, mac |-> mac]

\* the TLSConfig of createServer443, CipherSuites in the order of the source
TLSConfig443 ==
    [MaxVersion |-> VersionTLS12,
     MinVersion |-> VersionTLS10,
     PreferServerCipherSuites |-> TRUE,
     CipherSuites |-> <<
        Suite("ECDHE_RSA", "CHACHA20_POLY1305", "SHA256"),
        Suite("ECDHE_ECDSA", "AES_256_GCM", "SHA384"),
        Suite("ECDHE_RSA", "AES_256_GCM", "SHA384"),
        Suite("ECDHE_ECDSA", "AES_128_GCM", "SHA256"),
        Suite("ECDHE_RSA", "AES_128_GCM", "SHA256"),
        Suite("ECDHE_RSA", "AES_128_CBC", "SHA256"),
        Suite("ECDHE_ECDSA", "AES_128_CBC", "SHA256"),
        Suite("ECDHE_RSA", "AES_256_CBC", "SHA"),
        Suite("ECDHE_RSA", "AES_128_CBC", "SHA"),
        Suite("ECDHE_RSA", "3DES_EDE_CBC", "SHA"),
        Suite("ECDHE_RSA", "RC4_128", "SHA"),
        Suite("ECDHE_ECDSA", "AES_256_CBC", "SHA"),
        Suite("ECDHE_ECDSA", "AES_128_CBC", "SHA"),
        Suite("ECDHE_ECDSA", "RC4_128", "SHA"),
        Suite("RSA", "AES_256_GCM", "SHA384"),
        Suite("RSA", "AES_128_GCM", "SHA256"),
        Suite("RSA", "AES_128_CBC", "SHA256"),
        Suite("RSA", "AES_256_CBC", "SHA"),
        Suite("RSA", "AES_128_CBC", "SHA"),
        Suite("RSA", "3DES_EDE_CBC", "SHA"),
        Suite("RSA", "RC4_128", "SHA"),
        Suite("ECDHE_ECDSA", "CHACHA20_POLY1305", "SHA256")>>]

\* a server without TLSConfig
NoTLS == [MaxVersion |-> 0, MinVersion |-> 0, PreferServerCipherSuites |-> FALSE,
          CipherSuites |-> <<>>]

\* Server.TLSConfig of server s
TLSConfig(s) == IF tlsConfig[s] = "nil" THEN NoTLS ELSE TLSConfig443

LifeInit ==
    /\ servers \in {{":80"}, {":80", ":443"}}
    /\ mainPc = [s \in AllServers |-> "start"]
    /\ serveErr = [s \in AllServers |-> ""]
    /\ notify = [s \in AllServers |-> FALSE]
    /\ sigChan = [s \in AllServers |-> 0]
    /\ sigPc = [s \in AllServers |-> "none"]
    /\ inShutdown = [s \in AllServers |-> FALSE]
    /\ listenerOpen = [s \in AllServers |-> FALSE]
    /\ baseContext = [s \in AllServers |-> ""]
    /\ connBase = [s \in AllServers |-> ""]
    /\ cancelled = [s \in AllServers |-> {}]
    /\ deadline = [s \in AllServers |-> FALSE]
    /\ closeErr = [s \in AllServers |-> FALSE]
    /\ conn = [r \in Conns |-> NoConn]
    /\ nSignals = 0
    /\ tlsConfig = [s \in AllServers |-> "nil"]
    /\ shutdownCalls = [s \in AllServers |-> 0]
    /\ exited = ""

\* requests of server s whose handler has not returned
Running(s) == {r \in Conns : conn[r].state = "running" /\ conn[r].srv = s}

\* createServ (with setupSignals up to the go statement): the timeout context
\* is created and, by the deferred cancelTimeout, cancelled on return;
\* BaseContext returns it; c is registered for SIGINT and SIGTERM
createServ(s) ==
    /\ exited = ""
    /\ s \in servers
    /\ mainPc[s] = "start"
    /\ mainPc' = [mainPc EXCEPT ![s] = "created"]
    /\ baseContext' = [baseContext EXCEPT ![s] = "ctxTimeout"]
    /\ cancelled' = [cancelled EXCEPT ![s] = @ \cup {"ctxTimeout"}]
    /\ notify' = [notify EXCEPT ![s] = TRUE]
    /\ sigPc' = [sigPc EXCEPT ![s] = "wait"]
    /\ UNCHANGED <<servers, serveErr, sigChan, inShutdown, listenerOpen, connBase,
                   deadline, closeErr, conn, nSignals, exited>>
    /\ UNCHANGED <<proxyVars, psVars>>
    /\ tlsConfig' = [tlsConfig EXCEPT ![s] = IF s = ":443" THEN "createServer443" ELSE "nil"]
    /\ UNCHANGED shutdownCalls

\* ListenAndServe in a loop that tries the bind again after a failure
ListenAndServeRetry(s) ==
    /\ exited = ""
    /\ mainPc[s] = "created"
    /\ IF inShutdown[s]
       THEN /\ mainPc' = [mainPc EXCEPT ![s] = "returned"]
            /\ serveErr' = [serveErr EXCEPT ![s] = "http: Server closed"]
            /\ UNCHANGED <<listenerOpen, connBase>>
       ELSE \/ /\ serveErr[s] = ""
               /\ mainPc' = [mainPc EXCEPT ![s] = "created"]
               /\ serveErr' = [serveErr EXCEPT ![s] = "listen: address already in use"]
               /\ UNCHANGED <<listenerOpen, connBase>>
            \/ /\ mainPc' = [mainPc EXCEPT ![s] = "serving"]
               /\ listenerOpen' = [listenerOpen EXCEPT ![s] = TRUE]
               /\ connBase' = [connBase EXCEPT ![s] = baseContext[s]]
               /\ UNCHANGED serveErr
    /\ UNCHANGED <<servers, notify, sigChan, sigPc, inShutdown, baseContext,
                   cancelled, deadline, closeErr, conn, nSignals, exited>>
    /\ UNCHANGED <<proxyVars, psVars>>
    /\ UNCHANGED <<tlsConfig, shutdownCalls>>

\* server.ListenAndServe() is called: it returns ErrServerClosed after a
\* Shutdown, returns the error of the bind, or starts to serve with the base
\* context that BaseContext returns now
ListenAndServe(s) ==
    /\ exited = ""
    /\ mainPc[s] = "created"
    /\ IF inShutdown[s]
       THEN /\ mainPc' = [mainPc EXCEPT ![s] = "returned"]
            /\ serveErr' = [serveErr EXCEPT ![s] = "http: Server closed"]
            /\ UNCHANGED <<listenerOpen, connBase>>
       ELSE \/ /\ mainPc' = [mainPc EXCEPT ![s] = "returned"]
               /\ serveErr' = [serveErr EXCEPT ![s] = "listen: address already in use"]
               /\ UNCHANGED <<listenerOpen, connBase>>
            \/ /\ mainPc' = [mainPc EXCEPT ![s] = "serving"]
               /\ listenerOpen' = [listenerOpen EXCEPT ![s] = TRUE]
               /\ connBase' = [connBase EXCEPT ![s] = baseContext[s]]
               /\ UNCHANGED serveErr
    /\ UNCHANGED <<servers, notify, sigChan, sigPc, inShutdown, baseContext,
                   cancelled, deadline, closeErr, conn, nSignals, exited>>
    /\ UNCHANGED <<proxyVars, psVars>>
    /\ UNCHANGED <<tlsConfig, shutdownCalls>>

\* the listener accepts a connection and its request starts to be handled
Accept(r, s) ==
    /\ exited = ""
    /\ mainPc[s] = "serving"
    /\ listenerOpen[s]
    /\ conn[r].state = "none"
    /\ \A q \in Conns : q < r => conn[q].state # "none"
    /\ conn' = [conn EXCEPT ![r] = [NoConn EXCEPT !.state = "running", !.srv = s]]
    /\ UNCHANGED <<servers, mainPc, serveErr, notify, sigChan, sigPc, inShutdown,
                   listenerOpen, baseContext, connBase, cancelled, deadline,
                   closeErr, nSignals, exited>>
    /\ UNCHANGED <<proxyVars, psVars>>
    /\ UNCHANGED <<tlsConfig, shutdownCalls>>

\* the handler of a request returns, whatever it answered (404, 500 or the
\* answer of the reverse proxy)
Finish(r) ==
    /\ exited = ""
    /\ conn[r].state = "running"
    /\ conn' = [conn EXCEPT ![r] = [NoConn EXCEPT !.state = "done"]]
    /\ UNCHANGED <<servers, mainPc, serveErr, notify, sigChan, sigPc, inShutdown,
                   listenerOpen, baseContext, connBase, cancelled, deadline,
                   closeErr, nSignals, exited>>
    /\ UNCHANGED <<proxyVars, psVars>>
    /\ UNCHANGED <<tlsConfig, shutdownCalls>>

\* SIGINT or SIGTERM is sent to the process: without a Notify it ends the
\* process, otherwise it is queued in every registered channel that has room
Signal ==
    /\ exited = ""
    /\ nSignals < MaxSignals
    /\ nSignals' = nSignals + 1
    /\ IF \A s \in servers : ~notify[s]
       THEN /\ exited' = "signal"
            /\ UNCHANGED <<sigChan, conn>>
       ELSE /\ sigChan' = [s \in AllServers |->
                              IF notify[s] /\ sigChan[s] < 2
                              THEN sigChan[s] + 1 ELSE sigChan[s]]
            /\ conn' = [r \in Conns |->
                           IF conn[r].state = "running"
                           THEN [conn[r] EXCEPT !.atSignal = TRUE] ELSE conn[r]]
            /\ UNCHANGED exited
    /\ UNCHANGED <<servers, mainPc, serveErr, notify, sigPc, inShutdown,
                   listenerOpen, baseContext, connBase, cancelled, deadline, closeErr>>
    /\ UNCHANGED <<proxyVars, psVars>>
    /\ UNCHANGED <<tlsConfig, shutdownCalls>>

\* lines 192-197: a loop over c that is left with the first signal and never
\* left: the goroutine goes on waiting
SigReceiveNoBreak(s) ==
    /\ exited = ""
    /\ sigPc[s] = "wait"
    /\ sigChan[s] > 0
    /\ sigChan' = [sigChan EXCEPT ![s] = @ - 1]
    /\ UNCHANGED <<servers, mainPc, serveErr, notify, sigPc, inShutdown, listenerOpen,
                   baseContext, connBase, cancelled, deadline, closeErr, conn,
                   nSignals, exited>>
    /\ UNCHANGED <<proxyVars, psVars>>
    /\ UNCHANGED <<tlsConfig, shutdownCalls>>

\* lines 192-197 with a receive that does not block (select with default):
\* the goroutine goes on without a signal
SigReceiveNoWait(s) ==
    /\ exited = ""
    /\ sigPc[s] = "wait"
    /\ sigChan' = [sigChan EXCEPT ![s] = IF @ > 0 THEN @ - 1 ELSE 0]
    /\ sigPc' = [sigPc EXCEPT ![s] = "setup"]
    /\ UNCHANGED <<servers, mainPc, serveErr, notify, inShutdown, listenerOpen,
                   baseContext, connBase, cancelled, deadline, closeErr, conn,
                   nSignals, exited>>
    /\ UNCHANGED <<proxyVars, psVars>>
    /\ UNCHANGED <<tlsConfig, shutdownCalls>>

\* lines 192-197: the goroutine receives a signal from c and leaves the loop
SigReceive(s) ==
    /\ exited = ""
    /\ sigPc[s] = "wait"
    /\ sigChan[s] > 0
    /\ sigChan' = [sigChan EXCEPT ![s] = @ - 1]
    /\ sigPc' = [sigPc EXCEPT ![s] = "setup"]
    /\ UNCHANGED <<servers, mainPc, serveErr, notify, inShutdown, listenerOpen,
                   baseContext, connBase, cancelled, deadline, closeErr, conn,
                   nSignals, exited>>
    /\ UNCHANGED <<proxyVars, psVars>>
    /\ UNCHANGED <<tlsConfig, shutdownCalls>>

\* lines 199-209: BaseContext is replaced by one that returns the new ctx,
\* cancel is registered for shutdown, the 10 seconds context is created
SigSetup(s) ==
    /\ exited = ""
    /\ sigPc[s] = "setup"
    /\ baseContext' = [baseContext EXCEPT ![s] = "ctx"]
    /\ sigPc' = [sigPc EXCEPT ![s] = "shutdown"]
    /\ UNCHANGED <<servers, mainPc, serveErr, notify, sigChan, inShutdown,
                   listenerOpen, connBase, cancelled, deadline, closeErr, conn,
                   nSignals, exited>>
    /\ UNCHANGED <<proxyVars, psVars>>
    /\ UNCHANGED <<tlsConfig, shutdownCalls>>

\* a shutdown that marks the server but leaves its listener open
ShutdownBeginKeepListening(s) ==
    /\ exited = ""
    /\ sigPc[s] = "shutdown"
    /\ sigPc' = [sigPc EXCEPT ![s] = "draining"]
    /\ inShutdown' = [inShutdown EXCEPT ![s] = TRUE]
    /\ UNCHANGED listenerOpen
    /\ \E e \in (IF listenerOpen[s] THEN BOOLEAN ELSE {FALSE}) :
           closeErr' = [closeErr EXCEPT ![s] = e]
    /\ cancelled' = [cancelled EXCEPT ![s] = @ \cup {"ctx"}]
    /\ UNCHANGED <<servers, mainPc, serveErr, notify, sigChan, baseContext,
                   connBase, deadline, conn, nSignals, exited>>
    /\ UNCHANGED <<proxyVars, psVars>>
    /\ shutdownCalls' = [shutdownCalls EXCEPT ![s] = @ + 1]
    /\ UNCHANGED tlsConfig

\* line 210, entry of Server.Shutdown: inShutdown is set, the listener is
\* closed (which can fail), the functions registered for shutdown run (cancel)
ShutdownBegin(s) ==
    /\ exited = ""
    /\ sigPc[s] = "shutdown"
    /\ sigPc' = [sigPc EXCEPT ![s] = "draining"]
    /\ inShutdown' = [inShutdown EXCEPT ![s] = TRUE]
    /\ listenerOpen' = [listenerOpen EXCEPT ![s] = FALSE]
    /\ \E e \in (IF listenerOpen[s] THEN BOOLEAN ELSE {FALSE}) :
           closeErr' = [closeErr EXCEPT ![s] = e]
    /\ cancelled' = [cancelled EXCEPT ![s] = @ \cup {"ctx"}]
    /\ UNCHANGED <<servers, mainPc, serveErr, notify, sigChan, baseContext,
                   connBase, deadline, conn, nSignals, exited>>
    /\ UNCHANGED <<proxyVars, psVars>>
    /\ shutdownCalls' = [shutdownCalls EXCEPT ![s] = @ + 1]
    /\ UNCHANGED tlsConfig

\* Serve notices the closed listener: ListenAndServe returns ErrServerClosed
ServeReturn(s) ==
    /\ exited = ""
    /\ mainPc[s] = "serving"
    /\ inShutdown[s]
    /\ mainPc' = [mainPc EXCEPT ![s] = "returned"]
    /\ serveErr' = [serveErr EXCEPT ![s] = "http: Server closed"]
    /\ UNCHANGED <<servers, notify, sigChan, sigPc, inShutdown, listenerOpen,
                   baseContext, connBase, cancelled, deadline, closeErr, conn,
                   nSignals, exited>>
    /\ UNCHANGED <<proxyVars, psVars>>
    /\ UNCHANGED <<tlsConfig, shutdownCalls>>

\* line 238: exit(ListenAndServe's error), that is log.Fatalln
Exit(s) ==
    /\ exited = ""
    /\ mainPc[s] = "returned"
    /\ exited' = serveErr[s]
    /\ UNCHANGED <<servers, mainPc, serveErr, notify, sigChan, sigPc, inShutdown,
                   listenerOpen, baseContext, connBase, cancelled, deadline,
                   closeErr, conn, nSignals>>
    /\ UNCHANGED <<proxyVars, psVars>>
    /\ UNCHANGED <<tlsConfig, shutdownCalls>>

\* the loop over c around the whole body: after Shutdown returned nil the
\* goroutine waits for the next signal
ShutdownIdleLoop(s) ==
    /\ exited = ""
    /\ sigPc[s] = "draining"
    /\ Running(s) = {}
    /\ IF closeErr[s]
       THEN exited' = "close: listener" /\ UNCHANGED sigPc
       ELSE sigPc' = [sigPc EXCEPT ![s] = "wait"] /\ UNCHANGED exited
    /\ UNCHANGED <<servers, mainPc, serveErr, notify, sigChan, inShutdown,
                   listenerOpen, baseContext, connBase, cancelled, deadline,
                   closeErr, conn, nSignals>>
    /\ UNCHANGED <<proxyVars, psVars>>
    /\ UNCHANGED <<tlsConfig, shutdownCalls>>

\* Shutdown finds no request of the server running: it returns the error of
\* the listener's Close; lines 210-212 call exit when that is not nil
ShutdownIdle(s) ==
    /\ exited = ""
    /\ sigPc[s] = "draining"
    /\ Running(s) = {}
    /\ IF closeErr[s]
       THEN exited' = "close: listener" /\ UNCHANGED sigPc
       ELSE sigPc' = [sigPc EXCEPT ![s] = "done"] /\ UNCHANGED exited
    /\ UNCHANGED <<servers, mainPc, serveErr, notify, sigChan, inShutdown,
                   listenerOpen, baseContext, connBase, cancelled, deadline,
                   closeErr, conn, nSignals>>
    /\ UNCHANGED <<proxyVars, psVars>>
    /\ UNCHANGED <<tlsConfig, shutdownCalls>>

\* the 10 seconds given to Shutdown pass
DeadlineElapse(s) ==
    /\ exited = ""
    /\ sigPc[s] = "draining"
    /\ ~deadline[s]
    /\ deadline' = [deadline EXCEPT ![s] = TRUE]
    /\ UNCHANGED <<servers, mainPc, serveErr, notify, sigChan, sigPc, inShutdown,
                   listenerOpen, baseContext, connBase, cancelled, closeErr, conn,
                   nSignals, exited>>
    /\ UNCHANGED <<proxyVars, psVars>>
    /\ UNCHANGED <<tlsConfig, shutdownCalls>>

\* Shutdown returns the error of its context; lines 210-212 call exit
ShutdownTimeout(s) ==
    /\ exited = ""
    /\ sigPc[s] = "draining"
    /\ deadline[s]
    /\ exited' = "context deadline exceeded"
    /\ UNCHANGED <<servers, mainPc, serveErr, notify, sigChan, sigPc, inShutdown,
                   listenerOpen, baseContext, connBase, cancelled, deadline,
                   closeErr, conn, nSignals>>
    /\ UNCHANGED <<proxyVars, psVars>>
    /\ UNCHANGED <<tlsConfig, shutdownCalls>>

\* the steps of the goroutines of the process
ProcessStep ==
    \E s \in AllServers :
        \/ createServ(s)
        \/ ListenAndServe(s)
        \/ ServeReturn(s)
        \/ Exit(s)
        \/ SigReceive(s)
        \/ SigSetup(s)
        \/ ShutdownBegin(s)
        \/ ShutdownIdle(s)
        \/ ShutdownTimeout(s)

\* the steps of the environment: clients, signals, time
EnvStep ==
    \/ \E r \in Conns, s \in AllServers : Accept(r, s)
    \/ \E r \in Conns : Finish(r)
    \/ Signal
    \/ \E s \in AllServers : DeadlineElapse(s)

LifeNext == ProcessStep \/ EnvStep

\* ------------------------------------------- workinprogress/pubSub2.go
\* the topics of the calls, and the value that the publishers of a topic
\* publish; main uses "topic1" and 42
Topics == {"topic1", "topic2"}
PublishedValue == [t \in Topics |-> IF t = "topic1" THEN 42 ELSE 7]

\* make(chan T, 1): the capacity of a subscriber's channel
ChanCap == 1

\* a map that already has the key "topic1"
NewSubscriptionsWithTopic == [t \in {"topic1"} |-> <<>>]

\* make(map[string][]chan T): the map without keys
NewSubscriptions == [t \in {} |-> <<>>]

\* m[k] of a Go map: the zero value (the nil slice) for a missing key
MapGet(m, k) == IF k \in DOMAIN m THEN m[k] ELSE <<>>

\* m[k] = v of a Go map
MapSet(m, k, v) == [t \in DOMAIN m \cup {k} |-> IF t = k THEN v ELSE m[t]]

\* the locals of a goroutine: the arguments of the call it runs, the slice
\* that Publish ranges over, its index in it, and the channels it sent to
IdleClient == [pc |-> "idle", aTopic |-> "", value |-> 0, aSubCh |-> 0,
               rng |-> <<>>, i |-> 0, sent |-> <<>>]

\* main before it runs: position 0, subscriber and value not yet assigned
DemoStart == [main |-> 0, go |-> "none", subscriber |-> 0, value |-> 0]

PubInit ==
    /\ mode \in {"demo", "free"}
    /\ subscriptions = NewSubscriptions
    /\ chans = <<>>
    /\ mtxW = 0
    /\ mtxR = {}
    /\ client = [c \in Clients |-> IdleClient]
    /\ nCalls = 0
    /\ demo = DemoStart
    /\ panicked = ""

\* a goroutine may start a call: the program has not panicked, and in a free
\* run the calls of the run are not used up
MayCall(c) ==
    /\ panicked = ""
    /\ client[c].pc = "idle"
    /\ mode = "free" => nCalls < MaxCalls

\* the position of a goroutine that enters RWMutex.Lock: it takes the inner
\* mutex and announces itself as the writer, or it waits for the inner mutex
EnterLock(free, held) == IF mtxW = 0 THEN free ELSE held

\* `subscriber := ts.Subscribe("topic1")` of main, or any Subscribe call, up
\* to ts.mtx.Lock()
SubscribeCall(c, t) ==
    /\ MayCall(c)
    /\ mode = "demo" => c = 1 /\ demo.main = 0 /\ t = "topic1"
    /\ client' = [client EXCEPT ![c] = [IdleClient EXCEPT
                        !.pc = EnterLock("subWait", "subLock"), !.aTopic = t]]
    /\ mtxW' = EnterLock(c, mtxW)
    /\ nCalls' = nCalls + 1
    /\ demo' = IF mode = "demo" THEN [demo EXCEPT !.main = 1] ELSE demo
    /\ UNCHANGED <<mode, subscriptions, chans, mtxR, panicked>>
    /\ UNCHANGED <<proxyVars, lifeVars>>

\* `ts.Unsubscribe("topic1", subscriber)` of main, or any Unsubscribe call
\* with a channel that some Subscribe returned or with the nil channel (0),
\* up to ts.mtx.Lock()
UnsubscribeCall(c, t, ch) ==
    /\ MayCall(c)
    /\ ch \in 0..Len(chans)
    /\ mode = "demo" => c = 1 /\ demo.main = 3 /\ t = "topic1" /\ ch = demo.subscriber
    /\ client' = [client EXCEPT ![c] = [IdleClient EXCEPT
                        !.pc = EnterLock("unsWait", "unsLock"), !.aTopic = t,
                        !.aSubCh = ch]]
    /\ mtxW' = EnterLock(c, mtxW)
    /\ nCalls' = nCalls + 1
    /\ demo' = IF mode = "demo" THEN [demo EXCEPT !.main = 4] ELSE demo
    /\ UNCHANGED <<mode, subscriptions, chans, mtxR, panicked>>
    /\ UNCHANGED <<proxyVars, lifeVars>>

\* `go func() {...}()` of main, after Subscribe returned
Go ==
    /\ mode = "demo"
    /\ demo.main = 1
    /\ client[1].pc = "idle"
    /\ demo' = [demo EXCEPT !.main = 2, !.go = "started"]
    /\ UNCHANGED <<mode, subscriptions, chans, mtxW, mtxR, client, nCalls, panicked>>
    /\ UNCHANGED <<proxyVars, lifeVars>>

\* RWMutex.Lock of a writer that waited for the inner mutex: it takes it and
\* announces itself; from now on RLock blocks
LockAnnounce(c) ==
    /\ panicked = ""
    /\ client[c].pc \in {"subLock", "unsLock"}
    /\ mtxW = 0
    /\ mtxW' = c
    /\ client' = [client EXCEPT ![c].pc = IF @ = "subLock" THEN "subWait" ELSE "unsWait"]
    /\ UNCHANGED <<mode, subscriptions, chans, mtxR, nCalls, demo, panicked>>
    /\ UNCHANGED <<proxyVars, lifeVars>>

\* RWMutex.Lock returns to the announced writer when the readers have left
LockAcquired(c) == mtxW = c /\ mtxR = {}

\* the goroutines that block in RLock behind the writer
BlockedReaders == {r \in Clients : client[r].pc = "pubRWait"}

\* Publish, line 93, with the subscribers of "topic1" whatever aTopic is
PublishRangeTopic1(cl, aList) ==
    [cl EXCEPT !.pc = "pubSend", !.rng = MapGet(aList, "topic1"), !.i = 1]

\* Publish, line 93, once RLock has returned: `range ts.subscriptions[aTopic]`
\* evaluates the slice once
PublishRange(cl, aList) ==
    [cl EXCEPT !.pc = "pubSend", !.rng = MapGet(aList, cl.aTopic), !.i = 1]

\* RWMutex.Unlock by goroutine c, which returns: the readers that blocked
\* behind the writer get the lock and see the map aList that the writer left
Unlocked(c, aList) ==
    [r \in Clients |->
        IF r = c THEN IdleClient
        ELSE IF r \in BlockedReaders THEN PublishRange(client[r], aList)
        ELSE client[r]]

\* Subscribe, lines 63-69, from the return of Lock to the deferred Unlock
SubscribeBody(c) ==
    /\ panicked = ""
    /\ client[c].pc = "subWait"
    /\ LockAcquired(c)
    /\ LET ch == Len(chans) + 1
           t == client[c].aTopic
       IN  /\ chans' = Append(chans, [buf |-> <<>>, closed |-> FALSE, holder |-> c])
           /\ subscriptions' = MapSet(subscriptions, t, Append(MapGet(subscriptions, t), ch))
           /\ demo' = IF mode = "demo" /\ c = 1 THEN [demo EXCEPT !.subscriber = ch] ELSE demo
    /\ mtxW' = 0
    /\ mtxR' = mtxR \cup BlockedReaders
    /\ client' = Unlocked(c, subscriptions')
    /\ UNCHANGED <<mode, nCalls, panicked>>
    /\ UNCHANGED <<proxyVars, lifeVars>>

\* the index of the first element of aList that is ch, 0 if there is none
IndexOf(aList, ch) ==
    IF \E i \in 1..Len(aList) : aList[i] = ch
    THEN CHOOSE i \in 1..Len(aList) : aList[i] = ch /\ \A j \in 1..(i - 1) : aList[j] # ch
    ELSE 0

\* append(subscribers[:i], subscribers[i+1:]...) with the part after i lost
RemoveAtTruncate(aList, i) == SubSeq(aList, 1, i - 1)

\* append(subscribers[:i], subscribers[i+1:]...), i counted from 1
RemoveAt(aList, i) == SubSeq(aList, 1, i - 1) \o SubSeq(aList, i + 1, Len(aList))

\* Unsubscribe, lines 118-132, run by the announced writer without waiting
\* for the readers to leave
UnsubscribeBodyNoLock(c) ==
    /\ panicked = ""
    /\ client[c].pc = "unsWait"
    /\ mtxW = c
    /\ LET t == client[c].aTopic
           found == t \in DOMAIN subscriptions
           subscribers == MapGet(subscriptions, t)
           i == IndexOf(subscribers, client[c].aSubCh)
       IN  IF ~found \/ i = 0
           THEN UNCHANGED <<subscriptions, chans, panicked>>
           ELSE IF chans[subscribers[i]].closed
           THEN /\ panicked' = "close of closed channel"
                /\ UNCHANGED <<subscriptions, chans>>
           ELSE /\ chans' = [chans EXCEPT ![subscribers[i]].closed = TRUE]
                /\ subscriptions' = MapSet(subscriptions, t, RemoveAt(subscribers, i))
                /\ UNCHANGED panicked
    /\ mtxW' = 0
    /\ mtxR' = mtxR \cup BlockedReaders
    /\ client' = Unlocked(c, subscriptions')
    /\ UNCHANGED <<mode, nCalls, demo>>
    /\ UNCHANGED <<proxyVars, lifeVars>>

\* Unsubscribe, lines 118-132, from the return of Lock to the deferred
\* Unlock: closing a closed channel panics
UnsubscribeBody(c) ==
    /\ panicked = ""
    /\ client[c].pc = "unsWait"
    /\ LockAcquired(c)
    /\ LET t == client[c].aTopic
           found == t \in DOMAIN subscriptions
           subscribers == MapGet(subscriptions, t)
           i == IndexOf(subscribers, client[c].aSubCh)
       IN  IF ~found \/ i = 0
           THEN UNCHANGED <<subscriptions, chans, panicked>>
           ELSE IF chans[subscribers[i]].closed
           THEN /\ panicked' = "close of closed channel"
                /\ UNCHANGED <<subscriptions, chans>>
           ELSE /\ chans' = [chans EXCEPT ![subscribers[i]].closed = TRUE]
                /\ subscriptions' = MapSet(subscriptions, t, RemoveAt(subscribers, i))
                /\ UNCHANGED panicked
    /\ mtxW' = 0
    /\ mtxR' = mtxR \cup BlockedReaders
    /\ client' = Unlocked(c, subscriptions')
    /\ UNCHANGED <<mode, nCalls, demo>>
    /\ UNCHANGED <<proxyVars, lifeVars>>

\* `ts.Publish("topic1", 42)` in the goroutine of main, or any Publish call,
\* up to ts.mtx.RLock(): the reader gets the lock unless a writer has
\* announced itself, then it blocks until that writer unlocks
PublishCall(c, t, v) ==
    /\ MayCall(c)
    /\ mode = "demo" => c = 2 /\ demo.go = "started" /\ t = "topic1" /\ v = 42
    /\ LET cl == [IdleClient EXCEPT !.pc = "pubRWait", !.aTopic = t, !.value = v]
       IN  IF mtxW = 0
           THEN /\ mtxR' = mtxR \cup {c}
                /\ client' = [client EXCEPT ![c] = PublishRange(cl, subscriptions)]
           ELSE /\ client' = [client EXCEPT ![c] = cl]
                /\ UNCHANGED mtxR
    /\ nCalls' = nCalls + 1
    /\ demo' = IF mode = "demo" THEN [demo EXCEPT !.go = "called"] ELSE demo
    /\ UNCHANGED <<mode, subscriptions, chans, mtxW, panicked>>
    /\ UNCHANGED <<proxyVars, lifeVars>>

\* Publish, line 94: `subscriber <- value`; the send blocks while the buffer
\* is full and panics on a closed channel
PublishSend(c) ==
    /\ panicked = ""
    /\ client[c].pc = "pubSend"
    /\ client[c].i <= Len(client[c].rng)
    /\ LET subscriber == client[c].rng[client[c].i]
       IN  IF chans[subscriber].closed
           THEN /\ panicked' = "send on closed channel"
                /\ UNCHANGED <<chans, client>>
           ELSE /\ Len(chans[subscriber].buf) < ChanCap
                /\ chans' = [chans EXCEPT ![subscriber].buf = Append(@, client[c].value)]
                /\ client' = [client EXCEPT ![c].i = @ + 1,
                                            ![c].sent = Append(@, subscriber)]
                /\ UNCHANGED panicked
    /\ UNCHANGED <<mode, subscriptions, mtxW, mtxR, nCalls, demo>>
    /\ UNCHANGED <<proxyVars, lifeVars>>

\* Publish, after the loop: the deferred RUnlock, and the return
PublishReturn(c) ==
    /\ panicked = ""
    /\ client[c].pc = "pubSend"
    /\ client[c].i > Len(client[c].rng)
    /\ mtxR' = mtxR \ {c}
    /\ client' = [client EXCEPT ![c] = IdleClient]
    /\ UNCHANGED <<mode, subscriptions, chans, mtxW, nCalls, demo, panicked>>
    /\ UNCHANGED <<proxyVars, lifeVars>>

\* `value := <-subscriber` of main, or a receive by the goroutine that holds
\* the channel: it takes the first value of the buffer, or the zero value of
\* a closed and empty channel, and blocks otherwise
Receive(c, ch) ==
    /\ panicked = ""
    /\ client[c].pc = "idle"
    /\ ch \in 1..Len(chans)
    /\ chans[ch].holder = c
    /\ mode = "demo" => c = 1 /\ demo.main = 2 /\ ch = demo.subscriber
    /\ chans[ch].buf # <<>> \/ chans[ch].closed
    /\ chans' = [chans EXCEPT ![ch].buf = IF @ = <<>> THEN @ ELSE Tail(@)]
    /\ demo' = IF mode = "demo"
               THEN [demo EXCEPT !.main = 3,
                                 !.value = IF chans[ch].buf = <<>> THEN 0
                                           ELSE Head(chans[ch].buf)]
               ELSE demo
    /\ UNCHANGED <<mode, subscriptions, mtxW, mtxR, client, nCalls, panicked>>
    /\ UNCHANGED <<proxyVars, lifeVars>>

\* the steps of goroutine c inside the methods of TSubscriptions
MethodStep(c) ==
    \/ LockAnnounce(c)
    \/ SubscribeBody(c)
    \/ UnsubscribeBody(c)
    \/ PublishSend(c)
    \/ PublishReturn(c)

\* the steps of the callers: main and its goroutine, or any callers
CallerStep ==
    \/ \E c \in Clients, t \in Topics : SubscribeCall(c, t)
    \/ \E c \in Clients, t \in Topics, ch \in 0..MaxCalls : UnsubscribeCall(c, t, ch)
    \/ \E c \in Clients, t \in Topics : PublishCall(c, t, PublishedValue[t])
    \/ Go
    \/ \E c \in Clients, ch \in 1..MaxCalls : Receive(c, ch)

PubNext == (\E c \in Clients : MethodStep(c)) \/ CallerStep

\* ========================================================= specifications
\* the handler under requests, behind the one server that main starts
Init == ProxyInit /\ LifeInit /\ servers = {":80"} /\ PubInit /\ mode = "free"

Next == ProxyNext

Spec == Init /\ [][Next]_vars

\* the life cycle of the servers, with the handler of NewProxyHandler
LifeSpecInit ==
    /\ ProxyInit /\ LifeInit /\ backendServers = initBackendList
    /\ PubInit /\ mode = "free"

LifeSpec == LifeSpecInit /\ [][LifeNext]_vars

\* the same, with the goroutines of the process scheduled fairly
LiveSpec == LifeSpec /\ WF_vars(ProcessStep)

\* the publish/subscribe structure under the calls of main or of any callers
PubSpecInit ==
    /\ ProxyInit /\ backendServers = initBackendList
    /\ LifeInit /\ servers = {":80"}
    /\ PubInit

PubSpec == PubSpecInit /\ [][PubNext]_vars

\* the same, with the goroutines scheduled fairly, and main running on
PubLiveSpec ==
    /\ PubSpec
    /\ \A c \in Clients : WF_vars(MethodStep(c))
    /\ WF_vars(mode = "demo" /\ CallerStep)

\* =================================================================== claims
\* handles constructed for the entry of host k
HandlesFor(k) == {i \in 1..Len(handles) : handles[i].host = k}

\* tasks between the read of line 113 and the end of the write of line 134
InRegion(t) == task[t].pc \in {"create", "store", "writing"}

\* destHost of key k does not parse
Malformed(k) == ParseRequestURI(backendServers[k].destHost).err

\* C1: for concurrent first requests to one host exactly one handle is
\* constructed for that host, and every request for the host is served through
\* that one handle.
C1_SingleConstruction ==
    \A k \in DOMAIN backendServers :
        /\ Cardinality(HandlesFor(k)) <= 1
        /\ \A t \in Tasks :
              task[t].Host = k /\ task[t].via # 0 => HandlesFor(k) = {task[t].via}

\* C2: a request that starts when the entry of its host already holds a
\* handle is served through the handle the entry first held, and constructs
\* none.
C2_CacheStable ==
    \A t \in Tasks :
        task[t].after # 0 /\ task[t].pc = "done"
            => task[t].via = task[t].after /\ task[t].made = 0

\* C3: no two tasks are at the same time between reading and writing back the
\* entry of the same host, and no two tasks write the map at the same time.
C3_Serialized ==
    \A t, u \in Tasks :
        t # u =>
            /\ ~(InRegion(t) /\ InRegion(u) /\ task[t].Host = task[u].Host)
            /\ ~(task[t].pc = "writing" /\ task[u].pc = "writing")

\* C4: a request whose Host is no key of the map is answered with 404; it
\* constructs no handle, is relayed to no backend and does not write the map.
C4_UnknownHost404 ==
    \A t \in Tasks :
        task[t].pc # "idle" /\ task[t].Host \notin DOMAIN backendServers
            => /\ task[t].pc = "done"
               /\ task[t].status = StatusNotFound
               /\ task[t].made = 0
               /\ task[t].via = 0
               /\ ~task[t].wrote

C4_Witness ==
    \E t \in Tasks :
        /\ task[t].pc = "done"
        /\ task[t].Host \notin DOMAIN backendServers
        /\ task[t].status = StatusNotFound
        /\ Len(handles) > 0

\* C5: a request that is relayed carries a Host that is literally a key of
\* the map, and the handle it is relayed through was built from the backend
\* URL of that very key.
C5_RoutedToOwnBackend ==
    \A t \in Tasks :
        task[t].via # 0
            => /\ task[t].Host \in DOMAIN backendServers
               /\ handles[task[t].via].dest = backendServers[task[t].Host].destHost
               /\ handles[task[t].via].url =
                      ParseRequestURI(backendServers[task[t].Host].destHost).url

C5_Witness ==
    \E t, u \in Tasks :
        /\ task[t].via # 0 /\ task[u].via # 0
        /\ task[t].Host # task[u].Host
        /\ handles[task[t].via].dest # handles[task[u].via].dest

C7_ExitWaitsForInFlight ==
    exited # "" /\ nSignals > 0
        => \A r \in Conns :
              conn[r].state = "running" /\ conn[r].atSignal => deadline[conn[r].srv]

\* C8: once a termination signal was sent, the process eventually exits.
C8_EventuallyExits == (nSignals > 0) ~> (exited # "")

\* the process ended by the drain deadline, with a request still running
C8_Witness ==
    /\ nSignals > 0
    /\ exited = "context deadline exceeded"
    /\ \E r \in Conns : conn[r].state = "running"

C10_ContextLivesUntilDeadline ==
    \A r \in Conns :
        conn[r].state = "running" /\ connBase[conn[r].srv] \in cancelled[conn[r].srv]
            => deadline[conn[r].srv]

\* C15: the handle stored in the entry of a host changes from absent to
\* present once: the entry always holds the first handle that was stored.
C15_StoredOnce ==
    \A k \in DOMAIN backendServers :
        firstStored[k] # 0 => backendServers[k].destProxy = firstStored[k]

\* C16: no step changes the keys of the map or the destHost of a key; an
\* entry changes only by the write of a task whose request carries that key
\* as its Host, and that step changes no other entry.
C16_OnlyOwnHandle ==
    [][/\ DOMAIN backendServers' = DOMAIN backendServers
       /\ \A k \in DOMAIN backendServers :
             /\ backendServers'[k].destHost = backendServers[k].destHost
             /\ backendServers'[k] # backendServers[k]
                   => \E t \in Tasks :
                         /\ task[t].pc = "writing" /\ task[t].Host = k
                         /\ task'[t].pc = "relay"
                         /\ \A j \in DOMAIN backendServers \ {k} :
                               backendServers'[j] = backendServers[j]]_vars

\* the entries of two keys hold a handle, a third one holds none
C16_Witness ==
    \E k1, k2, k3 \in DOMAIN backendServers :
        /\ k1 # k2
        /\ backendServers[k1].destProxy # 0
        /\ backendServers[k2].destProxy # 0
        /\ backendServers[k3].destProxy = 0

\* a string is an absolute URL: it parses, and has a scheme and an authority
IsAbsoluteURL(rawURL) ==
    LET parsed == ParseRequestURI(rawURL)
    IN  ~parsed.err /\ parsed.url.Scheme # <<>> /\ parsed.url.Host # <<>>

\* C18: handles are constructed only for absolute URLs; a request to a key
\* whose destHost is not an absolute URL ends with 500, without relay.
C18_OnlyAbsoluteURLs ==
    /\ \A i \in 1..Len(handles) : IsAbsoluteURL(handles[i].dest)
    /\ \A t \in Tasks :
          /\ task[t].pc = "done"
          /\ task[t].Host \in DOMAIN backendServers
          /\ ~IsAbsoluteURL(backendServers[task[t].Host].destHost)
          => task[t].status = StatusInternalServerError /\ task[t].via = 0

\* ListenAndServe of server s failed to bind its address
BindFailed(s) == serveErr[s] = "listen: address already in use"

\* C11: when the bind of a server fails, ListenAndServe has returned for good
\* (no retry), no listener of it was ever open (no fallback), it never served
\* a request, and the process eventually exits.
C11_BindFailureExits ==
    /\ [](\A s \in AllServers :
            BindFailed(s) => /\ mainPc[s] = "returned"
                             /\ ~listenerOpen[s]
                             /\ connBase[s] = ""
                             /\ Running(s) = {})
    /\ \A s \in AllServers : BindFailed(s) ~> (exited # "")

\* the process ended with the bind error as its message, without any signal
C11_Witness ==
    /\ exited = "listen: address already in use"
    /\ nSignals = 0
    /\ \A r \in Conns : conn[r].state = "none"

\* C12: Server.Shutdown was called, or the signal goroutine has left its wait,
\* only in runs in which a termination signal was sent; the return of a
\* request handler, whatever it answered, starts no shutdown.
C12_ShutdownOnlyOnSignal ==
    /\ [](\A s \in AllServers :
            (inShutdown[s] \/ shutdownCalls[s] > 0 \/ sigPc[s] \notin {"none", "wait"})
                => nSignals > 0)
    /\ [][(\E r \in Conns : conn[r].state = "running" /\ conn'[r].state = "done")
            => UNCHANGED <<inShutdown, shutdownCalls, sigPc, listenerOpen>>]_vars

C12_Witness ==
    \E s \in AllServers :
        /\ inShutdown[s]
        /\ nSignals > 0
        /\ \E r \in Conns : conn[r].state = "done"

\* the state of the listener of server s: 0 Created, 1 Listening, 2 Draining,
\* 3 Closed
ListenerState(s) ==
    IF sigPc[s] = "done" THEN 3
    ELSE IF inShutdown[s] THEN 2
    ELSE IF mainPc[s] = "serving" THEN 1
    ELSE 0

\* C17: the state of a listener never decreases (so Closed is terminal), and
\* a connection is accepted only by a listener that is Listening.
C17_ForwardOnly ==
    [][/\ \A s \in AllServers : ListenerState(s)' >= ListenerState(s)
       /\ \A r \in Conns :
             conn[r].state = "none" /\ conn'[r].state = "running"
                 => ListenerState(conn'[r].srv) = 1]_vars

\* a listener that served a request has reached Closed
C17_Witness ==
    \E s \in AllServers :
        /\ ListenerState(s) = 3
        /\ connBase[s] # ""
        /\ \E r \in Conns : conn[r].state = "done"

\* authenticated encryption suites; all others are the legacy ones
IsAEAD(suite) == suite.enc \in {"AES_128_GCM", "AES_256_GCM", "CHACHA20_POLY1305"}

\* C19: a server with a TLSConfig has MinVersion <= MaxVersion, both set, and
\* a cipher suite list in which every AEAD suite comes before every legacy
\* suite and no suite occurs twice.
C19_CipherOrder ==
    \A s \in AllServers :
        tlsConfig[s] # "nil" =>
            LET c == TLSConfig(s).CipherSuites
            IN  /\ TLSConfig(s).MinVersion > 0
                /\ TLSConfig(s).MinVersion <= TLSConfig(s).MaxVersion
                /\ Len(c) > 0
                /\ \A i, j \in 1..Len(c) :
                      /\ IsAEAD(c[i]) /\ ~IsAEAD(c[j]) => i < j
                      /\ i # j => c[i] # c[j]

\* C20: Server.Shutdown is called at most once per server, and a signal that
\* is sent when the signal goroutine of a server has left its wait changes
\* nothing of that server's shutdown.
C20_FirstSignalOnly ==
    /\ [](\A s \in AllServers : shutdownCalls[s] <= 1)
    /\ [][\A s \in AllServers :
             nSignals' # nSignals /\ sigPc[s] \notin {"none", "wait"}
                 => /\ sigPc'[s] = sigPc[s]
                    /\ deadline'[s] = deadline[s]
                    /\ inShutdown'[s] = inShutdown[s]
                    /\ shutdownCalls'[s] = shutdownCalls[s]
                    /\ exited' = exited]_vars

\* a second signal is queued while the server drains after its one Shutdown
C20_Witness ==
    \E s \in AllServers :
        /\ sigPc[s] = "draining"
        /\ shutdownCalls[s] = 1
        /\ nSignals = 2
        /\ sigChan[s] = 1

\* the elements of a list
Range(aList) == {aList[k] : k \in 1..Len(aList)}

\* main has run to its end: Unsubscribe was called and has returned
DemoDone == demo.main = 4 /\ client[1].pc = "idle"

\* C13: Publish(topic, v) sends v exactly once to the channel of every
\* subscriber currently subscribed to the topic, in the order of the list, and
\* to no subscriber of another topic, so that a subscriber's channel holds
\* only values published to its topic; a value enters a channel only by such
\* a send, so that publishing to a topic without subscribers does nothing.  In
\* the run of main the subscriber receives 42, and the Unsubscribe that
\* follows returns.
C13_PublishDelivers ==
    /\ [](\A c \in Clients :
            client[c].pc = "pubSend" =>
                LET cl == client[c]
                IN  /\ cl.rng = MapGet(subscriptions, cl.aTopic)
                    /\ cl.sent = SubSeq(cl.rng, 1, cl.i - 1)
                    /\ \A j, k \in 1..Len(cl.rng) : cl.rng[j] = cl.rng[k] => j = k
                    /\ \A t \in Topics \ {cl.aTopic} :
                            Range(cl.sent) \cap Range(MapGet(subscriptions, t)) = {})
    /\ [](\A t \in DOMAIN subscriptions : \A ch \in Range(subscriptions[t]) :
            \A k \in 1..Len(chans[ch].buf) : chans[ch].buf[k] = PublishedValue[t])
    /\ [][\A ch \in 1..Len(chans) :
            chans'[ch].buf # chans[ch].buf /\ Len(chans'[ch].buf) >= Len(chans[ch].buf) =>
                \E c \in Clients :
                    /\ client[c].pc = "pubSend"
                    /\ client[c].i <= Len(client[c].rng)
                    /\ client[c].rng[client[c].i] = ch
                    /\ chans'[ch].buf = Append(chans[ch].buf, client[c].value)
                    /\ client'[c].sent = Append(client[c].sent, ch)]_vars
    /\ [](mode = "demo" /\ demo.main >= 3 => demo.value = 42)
    /\ (mode = "demo") ~> DemoDone

\* a Publish has sent to both subscribers of its topic while another topic
\* has a subscriber
C13_Witness ==
    \E c \in Clients :
        /\ client[c].pc = "pubSend"
        /\ client[c].i > Len(client[c].rng)
        /\ Len(client[c].sent) = 2
        /\ \E t \in Topics \ {client[c].aTopic} : MapGet(subscriptions, t) # <<>>

\* C14: the step in which Unsubscribe(topic, ch) runs its body removes
\* exactly ch from the list of the topic and closes exactly that channel: the
\* other subscribers keep their order and their open channels, the other
\* topics keep their lists; when the topic is unknown or ch is not in its list
\* (as in a second Unsubscribe of ch) the map and the channels stay as they
\* are.
C14_UnsubscribeFrame ==
    [][\A c \in Clients :
        client[c].pc = "unsWait" /\ client'[c].pc = "idle" =>
            LET t == client[c].aTopic
                ch == client[c].aSubCh
                l == MapGet(subscriptions, t)
                keep(x) == x # ch
            IN  IF t \in DOMAIN subscriptions /\ ch \in Range(l)
                THEN /\ panicked' = panicked
                     /\ DOMAIN subscriptions' = DOMAIN subscriptions
                     /\ subscriptions'[t] = SelectSeq(l, keep)
                     /\ Len(subscriptions'[t]) = Len(l) - 1
                     /\ \A t2 \in DOMAIN subscriptions \ {t} :
                            subscriptions'[t2] = subscriptions[t2]
                     /\ ~chans[ch].closed
                     /\ chans' = [chans EXCEPT ![ch].closed = TRUE]
                ELSE UNCHANGED <<subscriptions, chans, panicked>>]_vars

\* a first Unsubscribe has closed channel 1 and left channel 2 subscribed, and
\* a second Unsubscribe of channel 1 is about to run
C14_Witness ==
    \E c \in Clients :
        /\ client[c].pc = "unsWait"
        /\ client[c].aSubCh = 1
        /\ chans[1].closed
        /\ MapGet(subscriptions, client[c].aTopic) = <<2>>
        /\ ~chans[2].closed

\* goroutine c is in a call of Subscribe or Unsubscribe that has not returned
InLockCall(c) == client[c].pc \in {"subLock", "subWait", "unsLock", "unsWait"}

\* C21: under every interleaving of the calls no send meets a closed channel
\* and no close meets a closed channel (the program never panics): the
\* channels in the lists, and the channels a Publish ranges over, are open
\* and appear once; a buffer grows only on an open channel, and a closed
\* channel stays closed.
C21_NoSendOnClosedNoDoubleClose ==
    /\ [](panicked = "")
    /\ [](\A t \in DOMAIN subscriptions :
            /\ \A ch \in Range(subscriptions[t]) : ~chans[ch].closed
            /\ \A j, k \in 1..Len(subscriptions[t]) :
                    subscriptions[t][j] = subscriptions[t][k] => j = k
            /\ \A t2 \in DOMAIN subscriptions \ {t} :
                    Range(subscriptions[t]) \cap Range(subscriptions[t2]) = {})
    /\ [](\A c \in Clients :
            client[c].pc = "pubSend" => \A ch \in Range(client[c].rng) : ~chans[ch].closed)
    /\ [][\A ch \in 1..Len(chans) :
            /\ Len(chans'[ch].buf) > Len(chans[ch].buf) =>
                    ~chans[ch].closed /\ ~chans'[ch].closed
            /\ chans[ch].closed => chans'[ch].closed]_vars

\* channel 1 was closed by Unsubscribe, and a Publish that was called
\* meanwhile has sent to channel 2 and is about to return
C21_Witness ==
    /\ Len(chans) >= 2
    /\ chans[1].closed
    /\ panicked = ""
    /\ \E c \in Clients :
            /\ client[c].pc = "pubSend"
            /\ client[c].i > Len(client[c].rng)
            /\ client[c].sent = <<2>>

\* every goroutine inside a method is blocked, and no goroutine that holds a
\* channel with a value or a closed channel is free to receive from it
Deadlocked ==
    /\ panicked = ""
    /\ \E c \in Clients : client[c].pc # "idle"
    /\ \A c \in Clients : ~ENABLED MethodStep(c)
    /\ \A c \in Clients, ch \in 1..Len(chans) : ~ENABLED Receive(c, ch)

\* C22: no interleaving of the calls deadlocks, and with the goroutines
\* scheduled fairly every Subscribe and every Unsubscribe call returns, also
\* while a Publish waits on a full channel.
C22_CallsReturn ==
    /\ [](~(Deadlocked /\ \E c \in Clients : InLockCall(c)))
    /\ \A c \in Clients : InLockCall(c) ~> (client[c].pc = "idle")

\* C23: the map of NewSubscriptions has no key: as long as no Subscribe has
\* made a channel no topic has a subscriber, a Publish ranges over nothing,
\* and the steps of Publish and Unsubscribe leave the map without keys and
\* the program without panic.
C23_NewIsEmpty ==
    /\ [](chans = <<>> =>
            /\ subscriptions = NewSubscriptions
            /\ DOMAIN subscriptions = {}
            /\ \A t \in Topics : MapGet(subscriptions, t) = <<>>
            /\ panicked = ""
            /\ \A c \in Clients : client[c].rng = <<>> /\ client[c].sent = <<>>)
    /\ [][chans = <<>> /\ chans' = <<>> =>
            UNCHANGED <<subscriptions, panicked>>]_vars

\* before any Subscribe a Publish has ranged over the empty list and is about
\* to return while an Unsubscribe is under way, after an earlier call returned
C23_Witness ==
    /\ chans = <<>>
    /\ nCalls >= 3
    /\ \E c, d \in Clients :
            /\ client[c].pc = "pubSend"
            /\ client[c].i > Len(client[c].rng)
            /\ client[d].pc = "unsWait"

====
